---- MODULE Spec2Model ----
(***************************************************************************)
(* Model of the azure-logging-tool core: the lazily initialised client     *)
(* manager (src/src/core/azure_client.py), the domain services             *)
(* (src/src/services/*.py), the tolerant response parser                   *)
(* (src/src/core/response_parser.py) and the query builder                 *)
(* (src/src/core/query_builder.py).                                        *)
(*                                                                         *)
(* Four specifications share the variables:                                *)
(*   Spec          concurrent readers of one AzureClientManager            *)
(*   SpecService   one caller running domain-service operations            *)
(*   SpecParser    ResponseParser applied to bounded batches of rows       *)
(*   SpecBuilder   callers of the KQLQueryBuilder methods                  *)
(***************************************************************************)
EXTENDS Integers, Sequences, FiniteSets, TLC

\* ------------------------------------------------------------------ bounds
MaxCallers == 2
MaxAccesses == 2
MaxCalls == 2
MaxRows == 3
MaxHistory == 4
MaxTurns == 2
MaxTextLen == 5
MaxLength == 7

VARIABLES
    \* AzureClientManager
    slot,          \* handle -> cached client object, or NoObject (None)
    constructed,   \* handle -> number of client objects constructed
    attempts,      \* handle -> number of constructor calls
    served,        \* handle -> number of accesses that returned a client
    \* concurrent readers of the manager's properties
    callers,       \* the threads that read the manager
    pc,            \* thread -> position inside the property getter
    target,        \* thread -> handle being read
    fresh,         \* thread -> object built, not yet stored
    got,           \* thread -> outcome of its last access
    accesses,      \* thread -> accesses started
    \* one domain-service operation at a time
    op,            \* operation being run ("none" between operations)
    spc,           \* position inside the operation
    inflight,      \* exception travelling to the operation's handlers
    cause,         \* exception an external call threw in this operation
    causeAt,       \* step whose call threw it
    response,      \* what query_resource returned
    execCalls,     \* query_resource calls issued by this operation
    ret,           \* value the operation returned
    raised,        \* exception the operation raised to its caller
    calls,         \* operations started so far
    query,         \* query text the operation built
    \* ResponseParser
    parser,        \* which parse_* method
    rows,          \* the batch given to it
    parsed,        \* whether the method has run
    out,           \* records it returned
    diag,          \* rows it logged a warning for, in order
    summary,       \* total_errors and unique_error_types of an ErrorAnalysis
    perr,          \* exception that escaped it
    \* KQLQueryBuilder
    call,          \* the latest build_* call: method, arguments, text returned
    seen,          \* an earlier build_* call a caller kept
    \* Config and the facade AzureObservabilitySDK
    environ,       \* os.environ: the prefix that has variables, and their values
    farg,          \* the `environment` argument of the constructor running
    fenvironment,  \* self.environment (its value), "none" before it is set
    fpc,           \* position inside AzureObservabilitySDK.__init__
    fsteps,        \* the steps of __init__ performed so far, in order
    fconfig,       \* self.config
    fraised,       \* exception __init__ raised
    cenv,          \* argument of the latest direct get_environment_config call
    cret,          \* what it returned
    craised,       \* what it raised
    \* AzureHubLoggingAgent
    history,       \* the messages of the graph state (checkpointed per thread)
    apc,           \* "idle", "running" (a turn), "done", "failed"
    pending,       \* nodes scheduled in the current step, not started
    running,       \* nodes started, not finished
    finished,      \* nodes finished in the current step
    started,       \* node -> times started in this turn
    completed,     \* node -> times finished in this turn
    sumIn,         \* messages _summarize_old_messages was given
    sumOut,        \* messages it returned
    sumInvoked,    \* summary_chain.invoke calls in this turn
    agIn,          \* messages _safe_call_agent was given
    agOut,         \* messages it returned
    agOutcome,     \* what agent_executor.invoke did
    araised,       \* exception that ended the turn
    reply,         \* what chat returned
    turns,         \* turns started
    \* truncate_text
    ttext,         \* the text argument
    tmax,          \* the max_length argument
    tresult,       \* what the call returned
    tpc            \* "idle", "call", "returned"

managerVars == <<slot, constructed, attempts, served>>
threadVars == <<callers, pc, target, fresh, got, accesses>>
serviceVars == <<op, spc, inflight, cause, causeAt, response, execCalls, ret, raised, calls, query>>
parserVars == <<parser, rows, parsed, out, diag, summary, perr>>
builderVars == <<call, seen>>
agentVars ==
    <<history, apc, pending, running, finished, started, completed, sumIn, sumOut,
      sumInvoked, agIn, agOut, agOutcome, araised, reply, turns>>
textVars == <<ttext, tmax, tresult, tpc>>
facadeVars == <<environ, farg, fenvironment, fpc, fsteps, fconfig, fraised, cenv, cret, craised>>
vars == <<managerVars, threadVars, serviceVars, parserVars, builderVars, facadeVars, agentVars, textVars>>

\* -------------------------------------------------------------- exceptions
\* An exception is its class and its message; a message is the sequence of
\* the pieces an f-string concatenates, so that "message contains" is
\* membership of a piece.
NoExc == [type |-> "None", msg |-> <<>>]

Exc(type, msg) == [type |-> type, msg |-> msg]

\* The classes an exception of class `type` is an instance of.
Bases(type) ==
    CASE type = "ClientAuthenticationError" ->
            {"ClientAuthenticationError", "HttpResponseError", "Exception"}
      [] type = "ResourceNotFoundError" ->
            {"ResourceNotFoundError", "HttpResponseError", "Exception"}
      [] type = "HttpResponseError" -> {"HttpResponseError", "Exception"}
      [] type = "AuthenticationError" ->
            {"AuthenticationError", "AzureFunctionSDKError", "Exception"}
      [] type = "QueryError" ->
            {"QueryError", "AzureFunctionSDKError", "Exception"}
      [] type = "ConfigurationError" ->
            {"ConfigurationError", "AzureFunctionSDKError", "Exception"}
      [] type = "None" -> {}
      [] OTHER -> {type, "Exception"}

IsInstance(e, class) == class \in Bases(e.type)

Contains(msg, piece) == \E i \in 1..Len(msg) : msg[i] = piece

\* The messages the external collaborators put in what they throw.
CauseMsgs == {"cause text"}

\* ---------------------------------------------------------- client manager
Handles == {"web_client", "logs_client"}

NoObject == [handle |-> "None", n |-> 0]

\* __init__: both slots start empty.
InitManager ==
    /\ slot = [h \in Handles |-> NoObject]
    /\ constructed = [h \in Handles |-> 0]
    /\ attempts = [h \in Handles |-> 0]
    /\ served = [h \in Handles |-> 0]

\* What a client constructor can do: return a client, or throw.
CtorOutcomes ==
    {NoExc} \cup {Exc(t, <<m>>) : t \in {"ClientAuthenticationError", "ValueError"},
                                  m \in CauseMsgs}

\* `if self._web_client is None`
NeedsConstructionAlways(s) == TRUE

NeedsConstruction(s) == s = NoObject

\* The object a successful constructor call returns.
NewObject(h) == [handle |-> h, n |-> constructed[h] + 1]

AuthPrefix(h) ==
    IF h = "web_client" THEN "Failed to authenticate web client: "
    ELSE "Failed to authenticate logs client: "

\* `except ClientAuthenticationError as e: raise AuthenticationError(f"...{e}")`;
\* any other exception leaves the getter as it is.
TranslateCtorError(h, e) ==
    IF IsInstance(e, "ClientAuthenticationError")
    THEN Exc("AuthenticationError", <<AuthPrefix(h)>> \o e.msg)
    ELSE e

\* The slot after a constructor call that raised: the assignment it was
\* the right-hand side of did not happen.
AfterFailedConstructionCached(s) == [handle |-> "failed", n |-> 0]

AfterFailedConstruction(s) == s

\* --------------------------------------------- concurrent property readers
Threads == 1..MaxCallers

Value(o) == [kind |-> "value", obj |-> o, exc |-> NoExc]
Raise(e) == [kind |-> "raise", obj |-> NoObject, exc |-> e]
Nothing == [kind |-> "none", obj |-> NoObject, exc |-> NoExc]

InitThreads ==
    /\ callers \in {1..n : n \in 1..MaxCallers}
    /\ pc = [t \in Threads |-> "idle"]
    /\ target = [t \in Threads |-> "web_client"]
    /\ fresh = [t \in Threads |-> NoObject]
    /\ got = [t \in Threads |-> Nothing]
    /\ accesses = [t \in Threads |-> 0]

\* The getter's first statement: read the slot and test it.
Access(t, h) ==
    /\ t \in callers
    /\ pc[t] \in {"idle", "done"}
    /\ accesses[t] < MaxAccesses
    /\ accesses' = [accesses EXCEPT ![t] = @ + 1]
    /\ target' = [target EXCEPT ![t] = h]
    /\ got' = [got EXCEPT ![t] = Nothing]
    /\ pc' = [pc EXCEPT ![t] = IF NeedsConstruction(slot[h]) THEN "construct" ELSE "return"]
    /\ UNCHANGED <<managerVars, callers, fresh>>

\* The constructor call on the right of the assignment.
Construct(t) ==
    /\ pc[t] = "construct"
    /\ \E o \in CtorOutcomes :
        LET h == target[t] IN
        /\ attempts' = [attempts EXCEPT ![h] = @ + 1]
        /\ IF o = NoExc
           THEN /\ fresh' = [fresh EXCEPT ![t] = NewObject(h)]
                /\ constructed' = [constructed EXCEPT ![h] = @ + 1]
                /\ pc' = [pc EXCEPT ![t] = "store"]
                /\ got' = got
                /\ slot' = slot
           ELSE /\ got' = [got EXCEPT ![t] = Raise(TranslateCtorError(h, o))]
                /\ pc' = [pc EXCEPT ![t] = "done"]
                /\ slot' = [slot EXCEPT ![h] = AfterFailedConstruction(@)]
                /\ UNCHANGED <<fresh, constructed>>
    /\ UNCHANGED <<served, callers, target, accesses>>

\* The assignment to self._web_client / self._logs_client.
Store(t) ==
    /\ pc[t] = "store"
    /\ slot' = [slot EXCEPT ![target[t]] = fresh[t]]
    /\ fresh' = [fresh EXCEPT ![t] = NoObject]
    /\ pc' = [pc EXCEPT ![t] = "return"]
    /\ UNCHANGED <<constructed, attempts, served, callers, target, got, accesses>>

\* `return self._web_client`: the slot is read again.
Return(t) ==
    /\ pc[t] = "return"
    /\ got' = [got EXCEPT ![t] = Value(slot[target[t]])]
    /\ served' = [served EXCEPT ![target[t]] = @ + 1]
    /\ pc' = [pc EXCEPT ![t] = "done"]
    /\ UNCHANGED <<slot, constructed, attempts, callers, target, fresh, accesses>>

\* ---------------------------------------------------------- response parser
\* A row is a sequence of cells; a cell is written as a string:
\*   "null"  None                      ""     the empty string
\*   "0".."3", "7"  a number (or a string that spells one)
\*   "abc"   a string that spells no number
\*   "inf"   the float infinity
\* Other strings stand for timestamps, messages and names.
Digits == {"0", "1", "2", "3", "7"}

NumOf(c) ==
    CASE c = "0" -> 0 [] c = "1" -> 1 [] c = "2" -> 2 [] c = "3" -> 3
      [] c = "7" -> 7 [] c = "inf" -> 1000000 [] OTHER -> 0

\* Python truthiness of a cell: None, "" and 0 are false.
TruthyUnlessNone(c) == c # "null"

Truthy(c) == c \notin {"null", "", "0"}

\* row[i], Python's 0-based index.
Col(row, i) == row[i + 1]

\* int(c) and float(c): "ok", or the class of the exception they throw.
IntErr(c) ==
    IF c \in Digits THEN "ok"
    ELSE IF c = "inf" THEN "OverflowError"
    ELSE IF c = "null" THEN "TypeError"
    ELSE "ValueError"

FloatErr(c) ==
    IF c \in Digits \cup {"inf"} THEN "ok"
    ELSE IF c = "null" THEN "TypeError"
    ELSE "ValueError"

Parsers == {"logs", "metrics", "error_analysis", "function_performance", "timeline"}

\* The expressions each parse_* method evaluates for a row, in evaluation
\* order: <<column, how it is read>>.
\*   "custom"     len(row) > 5 and row[5], then json.loads (guarded)
\*   "ts"         row[i] if row[i] else datetime.now()
\*   "severity"   severity_map.get(int(row[i]), "Unknown") if row[i] is not None
\*   "orEmpty"    row[i] or ""          "orUnknown"  row[i] or "Unknown"
\*   "raw"        row[i]
\*   "int0"       int(row[i] or 0)      "float0"     float(row[i] or 0)
Fields(p) ==
    CASE p = "logs" ->
            << <<5, "custom">>, <<0, "ts">>, <<1, "severity">>, <<2, "orEmpty">>,
               <<3, "raw">>, <<4, "raw">> >>
      [] p = "metrics" ->
            << <<0, "ts">>, <<1, "int0">>, <<2, "int0">>, <<3, "int0">>,
               <<4, "float0">>, <<5, "int0">> >>
      [] p = "error_analysis" ->
            << <<0, "orUnknown">>, <<1, "orUnknown">>, <<2, "orUnknown">>, <<3, "int0">> >>
      [] p = "function_performance" ->
            << <<0, "orUnknown">>, <<1, "int0">>, <<2, "float0">>, <<3, "float0">>,
               <<4, "float0">>, <<5, "float0">>, <<6, "float0">> >>
      [] OTHER ->
            << <<0, "ts">>, <<1, "int0">>, <<2, "int0">>, <<3, "int0">> >>

\* What evaluating one of those expressions throws ("ok" when nothing).
FieldError(row, f) ==
    LET i == f[1]
        kind == f[2]
    IN  IF kind = "custom" THEN "ok"
        ELSE IF i >= Len(row) THEN "IndexError"
        ELSE CASE kind = "int0" ->
                    IF Truthy(Col(row, i)) THEN IntErr(Col(row, i)) ELSE "ok"
               [] kind = "float0" ->
                    IF Truthy(Col(row, i)) THEN FloatErr(Col(row, i)) ELSE "ok"
               [] kind = "severity" ->
                    IF Col(row, i) # "null" THEN IntErr(Col(row, i)) ELSE "ok"
               [] OTHER -> "ok"

\* The first exception building the row's record throws.
RowError(p, row) ==
    LET fs == Fields(p)
        bad == {j \in 1..Len(fs) : FieldError(row, fs[j]) # "ok"}
    IN  IF bad = {} THEN "ok"
        ELSE FieldError(row, fs[CHOOSE j \in bad : \A k \in bad : j <= k])

\* `except (IndexError, TypeError, ValueError)`: the row is skipped.
SkipsRowNarrow(err) == err \in {"IndexError", "TypeError"}

SkipsRow(err) == err \in {"IndexError", "TypeError", "ValueError"}

Int0(c) == IF Truthy(c) THEN NumOf(c) ELSE 0
Float0(c) == IF Truthy(c) THEN NumOf(c) ELSE 0
OrUnknown(c) == IF Truthy(c) THEN c ELSE "Unknown"
TsOrNow(c) == IF Truthy(c) THEN c ELSE "now"

\* severity_map.get(n, "Unknown")
SeverityLabelShifted(n) ==
    CASE n = 0 -> "Verbose" [] n = 1 -> "Information" [] n = 2 -> "Warning"
      [] n = 3 -> "Warning" [] OTHER -> "Unknown"

SeverityLabel(n) ==
    CASE n = 0 -> "Verbose" [] n = 1 -> "Information" [] n = 2 -> "Warning"
      [] n = 3 -> "Error" [] OTHER -> "Unknown"

\* custom_props: None, the parsed JSON, or {"raw": str(row[5])}.
CustomProps(row) ==
    IF Len(row) > 5 /\ Truthy(Col(row, 5))
    THEN IF Col(row, 5) \in Digits \cup {"{json}"}
         THEN <<"parsed", Col(row, 5)>>
         ELSE <<"raw", Col(row, 5)>>
    ELSE <<"None", "None">>


\* The record a parse_* method builds from a row that throws nothing.
Record(p, row) ==
    CASE p = "logs" ->
            [timestamp |-> TsOrNow(Col(row, 0)),
             level |-> IF Col(row, 1) # "null"
                       THEN SeverityLabel(NumOf(Col(row, 1))) ELSE "Unknown",
             message |-> IF Truthy(Col(row, 2)) THEN Col(row, 2) ELSE "",
             function_name |-> Col(row, 3),
             invocation_id |-> Col(row, 4),
             exception_type |-> "None",
             exception_message |-> "None",
             custom_properties |-> CustomProps(row)]
      [] p = "metrics" ->
            [timestamp |-> TsOrNow(Col(row, 0)),
             total_invocations |-> Int0(Col(row, 1)),
             successful_invocations |-> Int0(Col(row, 2)),
             failed_invocations |-> Int0(Col(row, 3)),
             avg_duration_ms |-> Float0(Col(row, 4)),
             unique_functions |-> Int0(Col(row, 5))]
      [] p = "error_analysis" ->
            [function_name |-> OrUnknown(Col(row, 0)),
             exception_type |-> OrUnknown(Col(row, 1)),
             exception_message |-> OrUnknown(Col(row, 2)),
             count |-> Int0(Col(row, 3))]
      [] p = "function_performance" ->
            [function_name |-> OrUnknown(Col(row, 0)),
             invocation_count |-> Int0(Col(row, 1)),
             avg_duration_ms |-> Float0(Col(row, 2)),
             min_duration_ms |-> Float0(Col(row, 3)),
             max_duration_ms |-> Float0(Col(row, 4)),
             p95_duration_ms |-> Float0(Col(row, 5)),
             success_rate |-> Float0(Col(row, 6))]
      [] OTHER ->
            [timestamp |-> TsOrNow(Col(row, 0)),
             requests |-> Int0(Col(row, 1)),
             errors |-> Int0(Col(row, 2)),
             traces |-> Int0(Col(row, 3))]

\* The state of a parse_* loop: the records appended, the rows a warning
\* was logged for, parse_error_analysis_response's running total_errors,
\* and the exception that ended the loop ("ok" when none).
ParseStart == [out |-> <<>>, diag |-> <<>>, total |-> 0, err |-> "ok"]

\* `for row in rows:` from row i on.
RECURSIVE ParseFrom(_, _, _, _)
ParseFrom(p, batch, i, acc) ==
    IF i > Len(batch) THEN acc
    ELSE LET err == RowError(p, batch[i])
         IN  IF err = "ok"
             THEN ParseFrom(p, batch, i + 1,
                            [acc EXCEPT !.out = Append(@, Record(p, batch[i])),
                                        !.total = IF p = "error_analysis"
                                                  THEN @ + Record(p, batch[i]).count
                                                  ELSE @])
             ELSE IF SkipsRow(err)
             THEN ParseFrom(p, batch, i + 1,
                            [acc EXCEPT !.diag = Append(@, [row |-> i, error |-> err])])
             ELSE [acc EXCEPT !.err = err]

RECURSIVE Reversed(_)
Reversed(q) == IF q = <<>> THEN <<>> ELSE Append(Reversed(Tail(q)), Head(q))

ParseNewestFirst(p, batch) ==
    [ParseFrom(p, batch, 1, ParseStart) EXCEPT !.out = Reversed(@)]

Parse(p, batch) == ParseFrom(p, batch, 1, ParseStart)

\* ErrorAnalysis(errors=errors, total_errors=total_errors,
\*               unique_error_types=len(errors), ...)
NoSummary == [total_errors |-> 0, unique_error_types |-> 0]

SummaryOverRows(r) ==
    [total_errors |-> r.total, unique_error_types |-> Len(r.out) + Len(r.diag)]

Summary(r) == [total_errors |-> r.total, unique_error_types |-> Len(r.out)]

\* ---------------------------------------------------- batches given to it
\* A row with every column present and well-typed.
BaseRow(p) ==
    CASE p = "logs" -> <<"ts", "1", "msg", "fn", "id", "{json}">>
      [] p = "metrics" -> <<"ts", "3", "2", "1", "7", "2">>
      [] p = "error_analysis" -> <<"fn", "ValueError", "msg", "2">>
      [] p = "function_performance" -> <<"fn", "3", "7", "1", "7", "7", "7">>
      [] OTHER -> <<"ts", "3", "1", "2">>

\* The columns the method reads without a length guard.
Required(p) ==
    CASE p = "logs" -> 5 [] p = "metrics" -> 6 [] p = "error_analysis" -> 4
      [] p = "function_performance" -> 7 [] OTHER -> 4

\* The columns the method converts with int() or float() (0-based).
NumericCols(p) ==
    CASE p = "logs" -> {1} [] p = "metrics" -> {1, 2, 3, 4, 5}
      [] p = "error_analysis" -> {3}
      [] p = "function_performance" -> {1, 2, 3, 4, 5, 6}
      [] OTHER -> {1, 2, 3}

Put(row, i, c) == [row EXCEPT ![i + 1] = c]

\* The numeric columns whose cell the batches vary: an int() column and a
\* float() column of each method that has both.
VariedCols(p) ==
    CASE p = "logs" -> {1} [] p = "metrics" -> {1, 4, 5}
      [] p = "error_analysis" -> {3}
      [] p = "function_performance" -> {1, 6}
      [] OTHER -> {1, 3}

\* The rows a batch is drawn from: the base row, the base row cut short,
\* and the base row with one cell replaced.
RowChoices(p) ==
    {BaseRow(p)}
    \cup {SubSeq(BaseRow(p), 1, n) : n \in {0, Required(p) - 1, Required(p)}}
    \cup {Put(BaseRow(p), i, c) : i \in VariedCols(p), c \in {"null", "", "abc"}}
    \cup {Put(BaseRow(p), 0, "null")}
    \cup (IF p = "logs"
          THEN {Put(BaseRow(p), 1, c) : c \in {"0", "2", "3", "7", "inf"}}
               \cup {Put(BaseRow(p), 5, c) : c \in {"null", "abc"}}
          ELSE {})

Batches(p) == UNION {[1..n -> RowChoices(p)] : n \in 0..MaxRows}

InitParser ==
    /\ parser \in Parsers
    /\ rows \in Batches(parser)
    /\ parsed = FALSE
    /\ out = <<>>
    /\ diag = <<>>
    /\ summary = NoSummary
    /\ perr = NoExc

\* One call of a parse_* method on the batch.
ParseBatch ==
    /\ ~parsed
    /\ parsed' = TRUE
    /\ LET r == Parse(parser, rows)
       IN  /\ out' = IF r.err = "ok" THEN r.out ELSE <<>>
           /\ diag' = r.diag
           /\ summary' = IF r.err = "ok" /\ parser = "error_analysis"
                         THEN Summary(r) ELSE NoSummary
           /\ perr' = IF r.err = "ok" THEN NoExc ELSE Exc(r.err, <<"conversion failed">>)
    /\ UNCHANGED <<parser, rows>>

\* ------------------------------------------------------------- query builder
\* A query text is the sequence of its lines; a line is its indentation and
\* the pieces the (f-)string is made of: literal text and the str() of each
\* interpolated value.  None is "null".
Digit(d) ==
    CASE d = 0 -> "0" [] d = 1 -> "1" [] d = 2 -> "2" [] d = 3 -> "3" [] d = 4 -> "4"
      [] d = 5 -> "5" [] d = 6 -> "6" [] d = 7 -> "7" [] d = 8 -> "8" [] OTHER -> "9"

\* str(n) of a non-negative int inside an f-string: its decimal digits.
RECURSIVE Decimal(_)
Decimal(n) == IF n < 10 THEN <<Digit(n)>> ELSE Decimal(n \div 10) \o <<Digit(n % 10)>>

Line(indent, pieces) == [indent |-> indent, pieces |-> pieces]

\* "\n".join(query_parts): one line per part, nothing before it.
JoinStamped(parts) ==
    [i \in 1..(Len(parts) + 1) |->
        IF i <= Len(parts) THEN Line(0, parts[i]) ELSE Line(0, <<"// ", call.fn>>)]

Join(parts) == [i \in 1..Len(parts) |-> Line(0, parts[i])]

\* A triple-quoted f-string of a build_* method: it opens with a line
\* break, its lines carry the source's indentation, and it ends with the
\* indentation of the closing quotes.
Block(indent, lines) ==
    <<Line(0, <<>>)>> \o [i \in 1..Len(lines) |-> Line(indent + lines[i][1], lines[i][2])]
    \o <<Line(indent, <<>>)>>

\* severity_map.get(log_level, log_level)
SeverityMapGetNumbersOnly(log_level) ==
    CASE log_level = "Error" -> "3" [] log_level = "Warning" -> "2"
      [] log_level = "Information" -> "1" [] log_level = "Verbose" -> "0"
      [] OTHER -> "0"

SeverityMapGet(log_level) ==
    CASE log_level = "Error" -> "3" [] log_level = "Warning" -> "2"
      [] log_level = "Information" -> "1" [] log_level = "Verbose" -> "0"
      [] OTHER -> log_level

WhereWindow(hours_back) == <<"| where timestamp > ago(">> \o Decimal(hours_back) \o <<"h)">>

WhereRole(name) == <<"| where cloud_RoleName contains '", name, "'">>

NoiseClauses ==
    << <<"| where message != \"WorkerStatusRequest completed\"">>,
       <<"| where message !contains \"Host lock lease acquired\"">>,
       <<"| where message !contains \"Host lock lease renewed\"">> >>

LimitClauseFixed(limit) == <<"| limit ">> \o Decimal(100)

LimitClause(limit) == <<"| limit ">> \o Decimal(limit)

Projection ==
    <<"| project timestamp, severityLevel, message, operation_Name, operation_Id, customDimensions">>

OrderBy == <<"| order by timestamp desc">>

\* The clauses build_logs_query appends last.
FinalClausesSortFirst(limit) == <<OrderBy, LimitClause(limit), Projection>>

FinalClauses(limit) == <<LimitClause(limit), Projection, OrderBy>>

\* `if exclude_noise:` query_parts.extend([...])
NoisePartAlways(exclude_noise) == NoiseClauses

NoisePart(exclude_noise) == IF exclude_noise THEN NoiseClauses ELSE <<>>

\* The three parts every logs query starts with.
BasePartsNoWindow(application_name, hours_back) ==
    << <<"traces">>, WhereRole(application_name) >>

BaseParts(application_name, hours_back) ==
    << <<"traces">>, WhereWindow(hours_back), WhereRole(application_name) >>

build_logs_query(application_name, hours_back, log_level, function_name, limit, exclude_noise) ==
    Join(BaseParts(application_name, hours_back)
         \o (IF Truthy(log_level)
             THEN << <<"| where severityLevel == ", SeverityMapGet(log_level)>> >>
             ELSE <<>>)
         \o (IF Truthy(function_name)
             THEN << <<"| where operation_Name contains '", function_name,
                       "' or message contains '", function_name, "'">> >>
             ELSE <<>>)
         \o NoisePart(exclude_noise)
         \o FinalClauses(limit))

build_metrics_query(function_app_name, hours_back, granularity_hours) ==
    Block(8, << <<0, <<"requests">>>>,
                <<0, WhereWindow(hours_back)>>,
                <<0, WhereRole(function_app_name)>>,
                <<0, <<"| summarize ">>>>,
                <<4, <<"TotalRequests = count(),">>>>,
                <<4, <<"SuccessfulRequests = countif(success == true),">>>>,
                <<4, <<"FailedRequests = countif(success == false),">>>>,
                <<4, <<"AvgDuration = avg(duration),">>>>,
                <<4, <<"UniqueOperations = dcount(operation_Name)">>>>,
                <<0, <<"by bin(timestamp, ">> \o Decimal(granularity_hours) \o <<"h)">>>>,
                <<0, OrderBy>> >>)

build_error_analysis_query(function_app_name, hours_back, limit) ==
    Block(8, << <<0, <<"union traces, exceptions">>>>,
                <<0, WhereWindow(hours_back)>>,
                <<0, WhereRole(function_app_name)>>,
                <<0, <<"| where severityLevel >= 3 or itemType == \"exception\"">>>>,
                <<0, <<"| summarize ErrorCount = count() by ">>>>,
                <<4, <<"operation_Name, ">>>>,
                <<4, <<"type = iff(itemType == \"exception\", type, \"trace\"),">>>>,
                <<4, <<"message = iff(itemType == \"exception\", outerMessage, message)">>>>,
                <<0, <<"| order by ErrorCount desc">>>>,
                <<0, LimitClause(limit)>> >>)

\* base_query, `+=` the optional filter, `+=` the summarize block.
build_function_performance_query(function_app_name, hours_back, function_name) ==
    Block(8, << <<0, <<"requests">>>>,
                <<0, WhereWindow(hours_back)>>,
                <<0, WhereRole(function_app_name)>> >>)
    \o (IF Truthy(function_name)
        THEN <<Line(0, <<"| where operation_Name contains '", function_name, "'">>)>>
        ELSE <<>>)
    \o Tail(Block(8, << <<0, <<"| summarize ">>>>,
                        <<4, <<"InvocationCount = count(),">>>>,
                        <<4, <<"AvgDuration = avg(duration),">>>>,
                        <<4, <<"MinDuration = min(duration),">>>>,
                        <<4, <<"MaxDuration = max(duration),">>>>,
                        <<4, <<"P95Duration = percentile(duration, 95),">>>>,
                        <<4, <<"SuccessRate = round(100.0 * countif(success == true) / count(), 2)">>>>,
                        <<0, <<"by operation_Name">>>>,
                        <<0, <<"| order by InvocationCount desc">>>> >>))

build_timeline_query(function_app_name, hours_back, granularity_minutes) ==
    Block(8, << <<0, <<"union requests, traces, exceptions">>>>,
                <<0, WhereWindow(hours_back)>>,
                <<0, WhereRole(function_app_name)>>,
                <<0, <<"| summarize ">>>>,
                <<4, <<"Requests = countif(itemType == \"request\"),">>>>,
                <<4, <<"Errors = countif(severityLevel >= 3 or itemType == \"exception\"),">>>>,
                <<4, <<"Traces = countif(itemType == \"trace\")">>>>,
                <<0, <<"by bin(timestamp, ">> \o Decimal(granularity_minutes) \o <<"m)">>>>,
                <<0, OrderBy>> >>)

\* The arguments the callers of the builder pass.
Subjects == {"foo", "app-name"}
HoursChoices == {3, 24}
LevelChoices == {"null", "", "Error", "Warning", "Information", "Verbose", "Critical"}
FunctionChoices == {"null", "fn-name"}
LimitChoices == {1, 100}
GranularityChoices == {1, 15}

NoCall == [fn |-> "none", args |-> <<>>, text |-> <<>>]

IdleBuilder == call = NoCall /\ seen = NoCall

\* A caller got `text` from method fn; a caller that keeps no earlier
\* result yet may keep the one of the call before.
Returned(fn, args, text) ==
    /\ call' = [fn |-> fn, args |-> args, text |-> text]
    /\ seen' \in (IF seen.fn = "none" THEN {seen, call} ELSE {seen})

\* The argument lists build_logs_query is called with: every combination
\* of the filters for one subject and window, and every subject and window
\* with and without a level.
LogsArgs ==
    [application_name : {"foo"}, hours_back : {3}, log_level : LevelChoices,
     function_name : FunctionChoices, limit : LimitChoices, exclude_noise : BOOLEAN]
    \cup [application_name : Subjects, hours_back : HoursChoices,
          log_level : {"null", "Error"}, function_name : {"null"},
          limit : LimitChoices, exclude_noise : {TRUE}]

BuildLogs ==
    \E r \in LogsArgs :
        Returned("build_logs_query", r,
                 build_logs_query(r.application_name, r.hours_back, r.log_level,
                                  r.function_name, r.limit, r.exclude_noise))

BuildMetrics ==
    \E a \in Subjects, h \in HoursChoices, g \in GranularityChoices :
        Returned("build_metrics_query",
                 [function_app_name |-> a, hours_back |-> h, granularity_hours |-> g],
                 build_metrics_query(a, h, g))

BuildErrorAnalysis ==
    \E a \in Subjects, h \in HoursChoices, n \in LimitChoices :
        Returned("build_error_analysis_query",
                 [function_app_name |-> a, hours_back |-> h, limit |-> n],
                 build_error_analysis_query(a, h, n))

BuildFunctionPerformance ==
    \E a \in Subjects, h \in HoursChoices, f \in FunctionChoices :
        Returned("build_function_performance_query",
                 [function_app_name |-> a, hours_back |-> h, function_name |-> f],
                 build_function_performance_query(a, h, f))

BuildTimeline ==
    \E a \in Subjects, h \in HoursChoices, g \in GranularityChoices :
        Returned("build_timeline_query",
                 [function_app_name |-> a, hours_back |-> h, granularity_minutes |-> g],
                 build_timeline_query(a, h, g))

\* ----------------------------------------------------------- domain services
QueryOps ==
    {"get_logs", "get_error_logs", "search_logs", "get_function_logs", "get_metrics",
     "analyze_errors", "get_function_performance", "get_timeline_analysis"}

MgmtOps ==
    {"list_function_apps", "list_functions", "get_function_app_info",
     "validate_function_app_exists"}

Ops == QueryOps \cup MgmtOps

\* The method whose body runs: get_error_logs and get_function_logs return
\* self.get_logs(...), validate_function_app_exists calls list_function_apps.
Body(o) ==
    CASE o \in {"get_error_logs", "get_function_logs"} -> "get_logs"
      [] o = "validate_function_app_exists" -> "list_function_apps"
      [] OTHER -> o

\* The handle the body reads from its AzureClientManager.
HandleOf(b) == IF b \in QueryOps THEN "logs_client" ELSE "web_client"

\* The parse_* method the body gives the rows to.
ParserOf(b) ==
    CASE b \in {"get_logs", "search_logs"} -> "logs"
      [] b = "get_metrics" -> "metrics"
      [] b = "analyze_errors" -> "error_analysis"
      [] b = "get_function_performance" -> "function_performance"
      [] OTHER -> "timeline"

\* Arguments and configuration that end up in messages and results.
ResourceGroup == "rg-name"
FunctionAppName == "app-name"
DefaultHoursBack == 24
FunctionName == "fn-name"
SearchTerm == "timeout"

\* The query get_logs builds: build_logs_query with its five arguments and
\* exclude_noise left at its default.
GetLogsQuery(application_name, hours_back, log_level, function_name, limit) ==
    build_logs_query(application_name, hours_back, log_level, function_name, limit, TRUE)

\* The query search_logs writes inline.
SearchLogsQuery(application_name, search_term, hours_back, limit) ==
    Block(12, << <<0, <<"traces">>>>,
                 <<0, WhereWindow(hours_back)>>,
                 <<0, WhereRole(application_name)>>,
                 <<0, <<"| where message contains '", search_term, "'">>>>,
                 <<0, LimitClause(limit)>>,
                 <<0, Projection>>,
                 <<0, OrderBy>> >>)

NoQuery == <<>>

\* The query operation o builds when called with the application's name,
\* hours_back = h and its other parameters at their defaults.
QueryOf(o, h) ==
    CASE o = "get_logs" -> GetLogsQuery(FunctionAppName, h, "Information", "null", 100)
      [] o = "get_error_logs" -> GetLogsQuery(FunctionAppName, h, "Error", "null", 50)
      [] o = "get_function_logs" ->
            GetLogsQuery(FunctionAppName, h, "Information", FunctionName, 100)
      [] o = "search_logs" -> SearchLogsQuery(FunctionAppName, SearchTerm, h, 100)
      [] o = "get_metrics" -> build_metrics_query(FunctionAppName, h, 1)
      [] o = "analyze_errors" -> build_error_analysis_query(FunctionAppName, h, 20)
      [] o = "get_function_performance" ->
            build_function_performance_query(FunctionAppName, h, "null")
      [] OTHER -> build_timeline_query(FunctionAppName, h, 15)

\* The `except` clauses of a body, in order: the class caught, the text of
\* the QueryError raised, and what the f-string interpolates after it
\* ("cause" = the caught exception `e`).
Clause(class, text, tail) == [catch |-> class, text |-> text, tail |-> tail]

Handlers(b) ==
    CASE b = "get_logs" ->
            << Clause("HttpResponseError", "Failed to retrieve logs: ", "cause"),
               Clause("Exception", "Unexpected error retrieving logs: ", "cause") >>
      [] b = "search_logs" ->
            << Clause("Exception", "Failed to search logs: ", "cause") >>
      [] b = "get_metrics" ->
            << Clause("HttpResponseError", "Failed to retrieve metrics: ", "cause"),
               Clause("Exception", "Unexpected error retrieving metrics: ", "cause") >>
      [] b = "analyze_errors" ->
            << Clause("HttpResponseError", "Failed to analyze errors: ", "cause"),
               Clause("Exception", "Unexpected error analyzing errors: ", "cause") >>
      [] b = "get_function_performance" ->
            << Clause("Exception", "Failed to get function performance: ", "cause") >>
      [] b = "get_timeline_analysis" ->
            << Clause("Exception", "Failed to get timeline analysis: ", "cause") >>
      [] b = "list_function_apps" ->
            << Clause("ResourceNotFoundError", "Resource group not found: ", ResourceGroup),
               Clause("HttpResponseError", "Failed to list Function Apps: ", "cause"),
               Clause("Exception", "Unexpected error listing Function Apps: ", "cause") >>
      [] b = "list_functions" ->
            << Clause("ResourceNotFoundError", "Function App not found: ", FunctionAppName),
               Clause("HttpResponseError", "Failed to list functions: ", "cause"),
               Clause("Exception", "Unexpected error listing functions: ", "cause") >>
      [] OTHER ->
            << Clause("ResourceNotFoundError", "Function App not found: ", FunctionAppName),
               Clause("Exception", "Failed to get Function App info: ", "cause") >>

\* raise QueryError(f"{text}{tail}")
QueryErrorOf(c, e) ==
    Exc("QueryError", <<c.text>> \o (IF c.tail = "cause" THEN e.msg ELSE <<c.tail>>))

\* What leaves the body's try statement when exception e reaches it: the
\* QueryError of the first clause that catches e, or e itself when none does.
WrapWithoutCause(b, e) ==
    LET hs == Handlers(b)
        hit == {i \in 1..Len(hs) : IsInstance(e, hs[i].catch)}
    IN  IF hit = {} THEN e
        ELSE Exc("QueryError", <<hs[CHOOSE i \in hit : \A j \in hit : i <= j].text>>)

WrapHttpOnly(b, e) ==
    LET hs == Handlers(b)
        hit == {i \in 1..Len(hs) : IsInstance(e, hs[i].catch) /\ hs[i].catch # "Exception"}
    IN  IF hit = {} THEN e
        ELSE QueryErrorOf(hs[CHOOSE i \in hit : \A j \in hit : i <= j], e)

Wrap(b, e) ==
    LET hs == Handlers(b)
        hit == {i \in 1..Len(hs) : IsInstance(e, hs[i].catch)}
    IN  IF hit = {} THEN e
        ELSE QueryErrorOf(hs[CHOOSE i \in hit : \A j \in hit : i <= j], e)

\* validate_function_app_exists: `except Exception: return False`.
SwallowsAllAlsoListFunctions(o) ==
    o \in {"validate_function_app_exists", "list_functions"}

SwallowsAll(o) == o = "validate_function_app_exists"

\* Values an operation returns.
NoRet == [kind |-> "none"]
ListOf(items) == [kind |-> "list", items |-> items]
BoolOf(b) == [kind |-> "bool", value |-> b]
AppInfo(settings) == [kind |-> "dict", name |-> FunctionAppName, app_settings |-> settings]
ErrorAnalysis(errors, total, unique) ==
    [kind |-> "ErrorAnalysis", errors |-> errors, total_errors |-> total,
     unique_error_types |-> unique, time_range_hours |-> DefaultHoursBack,
     function_app_name |-> FunctionAppName]

\* What query_resource can return: a status, and the tables that came with
\* it (for a partial result, the partial data); a table is its rows.
NoResponse == [status |-> "none", tables |-> <<>>]

ServiceBatches(p) ==
    { <<>>, <<BaseRow(p)>>, <<BaseRow(p), <<>>>>, <<Put(BaseRow(p), 1, "inf")>> }

Responses(p) ==
    [status : {"SUCCESS", "PARTIAL", "FAILURE"},
     tables : {<<>>} \cup {<<b>> : b \in ServiceBatches(p)}]

\* What an external call can throw.
ClientErrors ==
    {Exc(t, <<m>>) : t \in {"HttpResponseError", "ResourceNotFoundError",
                            "ClientAuthenticationError", "ServiceRequestError"},
                     m \in CauseMsgs}

\* `if response.status == LogsQueryStatus.SUCCESS and response.tables:`
UsableIgnoringStatus(r) == r.tables # <<>>

Usable(r) == r.status = "SUCCESS" /\ r.tables # <<>>

\* The else branch: `return []`, or analyze_errors' empty ErrorAnalysis.
EmptyResult(b) ==
    IF b = "analyze_errors" THEN ErrorAnalysis(<<>>, 0, 0) ELSE ListOf(<<>>)

\* The value returned from what the parse_* method returned.
ResultOf(b, r) ==
    IF b = "analyze_errors"
    THEN ErrorAnalysis(r.out, Summary(r).total_errors, Summary(r).unique_error_types)
    ELSE ListOf(r.out)

\* What list_by_resource_group can yield: apps with a name and a kind.
AppLists ==
    { <<>>,
      <<[name |-> "app-name", kind |-> "functionapp,linux"]>>,
      <<[name |-> "web-app", kind |-> "app"], [name |-> "other-fn", kind |-> "FunctionApp"]>>,
      <<[name |-> "no-kind", kind |-> "None"]>> }

\* `app.kind and 'functionapp' in app.kind.lower()`
IsFunctionApp(kind) == kind \in {"functionapp,linux", "FunctionApp"}

IsFunctionAppRecord(a) == IsFunctionApp(a.kind)

\* function_apps.append(app.name) for the apps that pass the test.
FunctionAppNames(apps) ==
    LET kept == SelectSeq(apps, IsFunctionAppRecord)
    IN  [i \in 1..Len(kept) |-> kept[i].name]

InSeq(x, seq) == \E i \in 1..Len(seq) : seq[i] = x

\* Where control goes when query_resource throws, after n calls of it.
AfterExecThrowRetry(n) == IF n < 2 THEN "exec" ELSE "handle"

AfterExecThrow(n) == "handle"

\* What the operation's caller sees when QueryError q leaves the body.
OnError(o, q) ==
    IF SwallowsAll(o)
    THEN [ret |-> BoolOf(FALSE), raised |-> NoExc]
    ELSE [ret |-> NoRet, raised |-> q]

\* A caller invokes operation o.
Start(o) ==
    /\ spc \in {"idle", "done"}
    /\ calls < MaxCalls
    /\ calls' = calls + 1
    /\ op' = o
    /\ spc' = IF Body(o) \in QueryOps THEN "build" ELSE "client"
    /\ inflight' = NoExc
    /\ cause' = NoExc
    /\ causeAt' = "none"
    /\ response' = NoResponse
    /\ execCalls' = 0
    /\ ret' = NoRet
    /\ raised' = NoExc
    /\ query' = NoQuery
    /\ UNCHANGED managerVars

\* The query text and `timedelta(hours=hours_back)`; the latter throws
\* TypeError when hours_back is no number.
Build ==
    /\ spc = "build"
    /\ \E h \in HoursChoices : query' = QueryOf(op, h)
    /\ \E e \in {NoExc, Exc("TypeError", <<"unsupported type for timedelta hours component">>)} :
        IF e = NoExc
        THEN /\ spc' = "client"
             /\ UNCHANGED <<inflight, cause, causeAt>>
        ELSE /\ spc' = "handle"
             /\ inflight' = e
             /\ cause' = e
             /\ causeAt' = "build"
    /\ UNCHANGED <<managerVars, op, response, execCalls, ret, raised, calls>>

\* `self.azure_client.logs_client` / `.web_client`: the whole getter, run by
\* the operation's single caller.
ClientStep ==
    /\ spc = "client"
    /\ LET h == HandleOf(Body(op)) IN
        IF NeedsConstruction(slot[h])
        THEN \E o \in CtorOutcomes :
                /\ attempts' = [attempts EXCEPT ![h] = @ + 1]
                /\ IF o = NoExc
                   THEN /\ slot' = [slot EXCEPT ![h] = NewObject(h)]
                        /\ constructed' = [constructed EXCEPT ![h] = @ + 1]
                        /\ served' = [served EXCEPT ![h] = @ + 1]
                        /\ spc' = "exec"
                        /\ UNCHANGED <<inflight, cause, causeAt>>
                   ELSE /\ inflight' = TranslateCtorError(h, o)
                        /\ cause' = o
                        /\ causeAt' = "construct"
                        /\ spc' = "handle"
                        /\ UNCHANGED <<slot, constructed, served>>
        ELSE /\ served' = [served EXCEPT ![h] = @ + 1]
             /\ spc' = "exec"
             /\ UNCHANGED <<slot, constructed, attempts, inflight, cause, causeAt>>
    /\ UNCHANGED <<op, response, execCalls, ret, raised, calls, query>>

\* `logs_client.query_resource(resource_id=..., query=..., timespan=...)`
Exec ==
    /\ spc = "exec"
    /\ Body(op) \in QueryOps
    /\ execCalls' = execCalls + 1
    /\ \/ \E r \in Responses(ParserOf(Body(op))) :
            /\ response' = r
            /\ spc' = "interpret"
            /\ UNCHANGED <<inflight, cause, causeAt>>
       \/ \E e \in ClientErrors :
            /\ inflight' = e
            /\ cause' = e
            /\ causeAt' = "exec"
            /\ spc' = AfterExecThrow(execCalls')
            /\ UNCHANGED response
    /\ UNCHANGED <<managerVars, op, ret, raised, calls, query>>

\* The if/else after the call: parse the first table, or return empty.
Interpret ==
    /\ spc = "interpret"
    /\ LET b == Body(op)
           r == Parse(ParserOf(b), response.tables[1])
       IN  IF Usable(response)
           THEN IF r.err = "ok"
                THEN /\ ret' = ResultOf(b, r)
                     /\ spc' = "done"
                     /\ UNCHANGED <<inflight, cause, causeAt>>
                ELSE /\ inflight' = Exc(r.err, <<"cannot convert float infinity to integer">>)
                     /\ cause' = inflight'
                     /\ causeAt' = "interpret"
                     /\ spc' = "handle"
                     /\ ret' = ret
           ELSE /\ ret' = EmptyResult(b)
                /\ spc' = "done"
                /\ UNCHANGED <<inflight, cause, causeAt>>
    /\ UNCHANGED <<managerVars, op, response, execCalls, raised, calls, query>>

\* The management call of a resource-metadata body, and the loop over what
\* it yields: web_apps.list_by_resource_group, .list_functions or .get.
MgmtCall ==
    /\ spc = "exec"
    /\ Body(op) \in MgmtOps
    /\ \/ \E e \in ClientErrors :
            /\ inflight' = e
            /\ cause' = e
            /\ causeAt' = "mgmt"
            /\ spc' = "handle"
            /\ ret' = ret
       \/ /\ Body(op) = "list_function_apps"
          /\ \E apps \in AppLists :
                ret' = IF op = "validate_function_app_exists"
                       THEN BoolOf(InSeq(FunctionAppName, FunctionAppNames(apps)))
                       ELSE ListOf(FunctionAppNames(apps))
          /\ spc' = "done"
          /\ UNCHANGED <<inflight, cause, causeAt>>
       \/ /\ Body(op) = "list_functions"
          /\ \E fs \in {<<>>, <<"fn">>, <<"fn", "other">>} : ret' = ListOf(fs)
          /\ spc' = "done"
          /\ UNCHANGED <<inflight, cause, causeAt>>
       \/ /\ Body(op) = "get_function_app_info"
          /\ spc' = "settings"
          /\ UNCHANGED <<inflight, cause, causeAt, ret>>
    /\ UNCHANGED <<managerVars, op, response, execCalls, raised, calls, query>>

\* get_function_app_info's inner try: web_apps.list_application_settings;
\* `except Exception` logs a warning and leaves app_settings empty.
Settings ==
    /\ spc = "settings"
    /\ served' = [served EXCEPT !["web_client"] = @ + 1]
    /\ \/ \E props \in {"None", "properties"} :
            /\ ret' = AppInfo(IF props = "None" THEN "empty" ELSE props)
            /\ UNCHANGED <<cause, causeAt>>
       \/ \E e \in ClientErrors :
            /\ cause' = e
            /\ causeAt' = "settings"
            /\ ret' = AppInfo("empty")
    /\ spc' = "done"
    /\ UNCHANGED <<slot, constructed, attempts, op, inflight, response, execCalls, raised, calls, query>>

\* The except clauses of the body (and, for validate_function_app_exists,
\* of its own try around the call).
Handle ==
    /\ spc = "handle"
    /\ LET end == OnError(op, Wrap(Body(op), inflight))
       IN  /\ ret' = end.ret
           /\ raised' = end.raised
    /\ inflight' = NoExc
    /\ spc' = "done"
    /\ UNCHANGED <<managerVars, op, cause, causeAt, response, execCalls, calls, query>>

\* ------------------------------------------------------------ configuration
\* os.environ: the variables of one environment prefix, each unset
\* ("null"), empty, or holding a value; every other variable is unset.
ConfigFields == <<"subscription_id", "resource_group", "app_insights_name">>

ValueOf(field) ==
    CASE field = "subscription_id" -> "sub-id" [] field = "resource_group" -> "rg-name"
      [] OTHER -> "ai-name"

Environs ==
    [prefix : {"OPTUMQA", "OPTUMDEV", "QA"},
     vals : {v \in [{ConfigFields[i] : i \in 1..3} -> {"null", "", "sub-id", "rg-name", "ai-name"}] :
                \A i \in 1..3 : v[ConfigFields[i]] \in {"null", "", ValueOf(ConfigFields[i])}}]

\* environment.upper() and environment.lower()
Upper(s) ==
    CASE s \in {"optumqa", "OptumQA"} -> "OPTUMQA" [] s = "optumdev" -> "OPTUMDEV"
      [] s = "qa" -> "QA" [] OTHER -> s

Lower(s) == CASE s = "OptumQA" -> "optumqa" [] OTHER -> s

\* os.getenv(f'{env_upper}_<FIELD>')
Getenv(env_upper, field) ==
    IF env_upper = environ.prefix THEN environ.vals[field] ELSE "null"

\* `not v` of an os.getenv result: None and "" are false.
IsSet(v) == v \notin {"null", ""}

NoConfig == [subscription_id |-> "null", resource_group |-> "null", app_insights_name |-> "null"]

\* Config.get_environment_config: the EnvironmentConfig returned, or the
\* exception raised.
get_environment_config(environment) ==
    LET env_upper == Upper(environment)
        v == [f \in {ConfigFields[i] : i \in 1..3} |-> Getenv(env_upper, f)]
        missing == SelectSeq(ConfigFields, LAMBDA k : ~IsSet(v[k]))
    IN  IF missing # <<>>
        THEN [ret |-> NoConfig,
              exc |-> Exc("ValueError",
                          <<"Missing required environment variables for ", environment, ": ">>
                          \o missing)]
        ELSE [ret |-> [subscription_id |-> v["subscription_id"],
                       resource_group |-> v["resource_group"],
                       app_insights_name |-> v["app_insights_name"]],
              exc |-> NoExc]

\* The names callers pass.
EnvironmentNames == {"optumqa", "OptumQA", "optumdev", "qa"}

\* A direct call of Config.get_environment_config.
CallGetEnvironmentConfig ==
    \E name \in EnvironmentNames :
        /\ cenv' = name
        /\ cret' = get_environment_config(name).ret
        /\ craised' = get_environment_config(name).exc
        /\ UNCHANGED <<environ, farg, fenvironment, fpc, fsteps, fconfig, fraised>>

\* -------------------------------------------------------------------- facade
\* class Environment(Enum): the supported values.
EnvironmentValues == {"optumdev", "optumqa"}

\* Environment(value) succeeds.
IsSupportedAny(value) == TRUE

IsSupported(value) == value \in EnvironmentValues

\* The `environment` argument: a string, or a member of Environment.
FacadeArgs ==
    [kind : {"str"}, value : EnvironmentNames] \cup [kind : {"enum"}, value : EnvironmentValues]

\* AzureObservabilitySDK(environment): logging is set up first.
NewSDK ==
    /\ fpc \in {"idle", "ready", "failed"}
    /\ \E a \in FacadeArgs : farg' = a
    /\ fenvironment' = "none"
    /\ fpc' = "validate"
    /\ fsteps' = <<"logging">>
    /\ fconfig' = NoConfig
    /\ fraised' = NoExc
    /\ UNCHANGED <<environ, cenv, cret, craised>>

\* `if isinstance(environment, str): environment = Environment(environment.lower())`
ValidateEnvironment ==
    /\ fpc = "validate"
    /\ fsteps' = Append(fsteps, "validate")
    /\ IF farg.kind = "str" /\ ~IsSupported(Lower(farg.value))
       THEN /\ fraised' = Exc("ConfigurationError",
                              <<"Invalid environment: ", farg.value, ". Valid options: ",
                                "optumdev", "optumqa">>)
            /\ fpc' = "failed"
            /\ UNCHANGED fenvironment
       ELSE /\ fenvironment' = IF farg.kind = "str" THEN Lower(farg.value) ELSE farg.value
            /\ fpc' = "load"
            /\ UNCHANGED fraised
    /\ UNCHANGED <<environ, farg, fconfig, cenv, cret, craised>>

\* `self.config = Config.get_environment_config(environment.value)` with
\* `except ValueError as e: raise ConfigurationError(f"Configuration error: {e}")`
LoadConfiguration ==
    /\ fpc = "load"
    /\ fsteps' = Append(fsteps, "config")
    /\ LET r == get_environment_config(fenvironment)
       IN  IF r.exc = NoExc
           THEN /\ fconfig' = r.ret
                /\ fpc' = "credential"
                /\ UNCHANGED fraised
           ELSE /\ fraised' = IF IsInstance(r.exc, "ValueError")
                              THEN Exc("ConfigurationError", <<"Configuration error: ">> \o r.exc.msg)
                              ELSE r.exc
                /\ fpc' = "failed"
                /\ UNCHANGED fconfig
    /\ UNCHANGED <<environ, farg, fenvironment, cenv, cret, craised>>

\* `self.credential = credential or DefaultAzureCredential()`
InitCredential ==
    /\ fpc = "credential"
    /\ fsteps' = Append(fsteps, "credential")
    /\ \E e \in {NoExc} \cup {Exc("ClientAuthenticationError", <<m>>) : m \in CauseMsgs} :
        IF e = NoExc
        THEN fpc' = "services" /\ UNCHANGED fraised
        ELSE /\ fraised' = Exc("AuthenticationError",
                               <<"Failed to initialize Azure credentials: ">> \o e.msg)
             /\ fpc' = "failed"
    /\ UNCHANGED <<environ, farg, fenvironment, fconfig, cenv, cret, craised>>

\* The three service constructors, under one `except Exception`.
InitServices ==
    /\ fpc = "services"
    /\ fsteps' = Append(fsteps, "services")
    /\ \E e \in {NoExc} \cup {Exc("TypeError", <<m>>) : m \in CauseMsgs} :
        IF e = NoExc
        THEN fpc' = "ready" /\ UNCHANGED fraised
        ELSE /\ fraised' = Exc("ConfigurationError",
                               <<"Failed to initialize services: ">> \o e.msg)
             /\ fpc' = "failed"
    /\ UNCHANGED <<environ, farg, fenvironment, fconfig, cenv, cret, craised>>

IdleFacade ==
    /\ environ = [prefix |-> "OPTUMQA", vals |-> NoConfig]
    /\ farg = [kind |-> "enum", value |-> "optumqa"]
    /\ fenvironment = "none"
    /\ fpc = "idle"
    /\ fsteps = <<>>
    /\ fconfig = NoConfig
    /\ fraised = NoExc
    /\ cenv = "none"
    /\ cret = NoConfig
    /\ craised = NoExc

\* --------------------------------------------------------------------- agent
\* A message of the conversation: its id in the graph state, its type and
\* its content.
Msg(id, type, content) == [id |-> id, type |-> type, content |-> content]

max_tokens == 2000

\* len(self.encoder.encode(content))
TokensOf(content) ==
    CASE content = "long question" -> 1000 [] content = "hi" -> 1
      [] content = "" -> 0 [] OTHER -> 3

RECURSIVE TotalTokens(_)
TotalTokens(messages) ==
    IF messages = <<>> THEN 0
    ELSE TokensOf(Head(messages).content) + TotalTokens(Tail(messages))

\* messages[-k:]
LastN(messages, k) ==
    IF Len(messages) <= k THEN messages
    ELSE SubSeq(messages, Len(messages) - k + 1, Len(messages))

\* What self.summary_chain.invoke does: return a summary, or raise.
SummarizerOutcomes ==
    { [output |-> "summary of the conversation", exc |-> NoExc],
      [output |-> "", exc |-> Exc("ValueError", <<"cause text">>)] }

\* _summarize_old_messages(state) when the chain does `outcome`: the
\* messages returned, the chain invocations made, the exception raised.
KeepWindowAll(messages) == messages

KeepWindow(messages) == LastN(messages, 5)

summarize_old_messages(messages, outcome, newId) ==
    IF TotalTokens(messages) < max_tokens
    THEN [messages |-> messages, invoked |-> 0, exc |-> NoExc]
    ELSE IF outcome.exc # NoExc
    THEN [messages |-> <<>>, invoked |-> 1, exc |-> outcome.exc]
    ELSE [messages |-> Append(KeepWindow(messages), Msg(newId, "ai", outcome.output)),
          invoked |-> 1, exc |-> NoExc]

\* What self.agent_executor.invoke does: return a response whose "output"
\* is a text, or raise.
AgentOutputs ==
    {"The function app has 3 errors.", "", "   ", "I don't know"}

AgentOutcomes ==
    {[output |-> o, exc |-> NoExc] : o \in AgentOutputs}
    \cup {[output |-> "", exc |-> Exc("QueryError", <<"cause text">>)]}

\* str.strip() and str.lower() of the texts in play.
Strip(s) == IF s = "   " THEN "" ELSE s

LowerText(s) ==
    CASE s = "I don't know" -> "i don't know"
      [] s = "The function app has 3 errors." -> "the function app has 3 errors."
      [] OTHER -> s

\* `"I don't know" in s`, a case-sensitive search.
HasIDontKnow(s) == s = "I don't know"

FallbackText ==
    "I'm not sure how to help with that yet, but I'm learning every day. Could you rephrase or ask something else?"

\* state["messages"] + [msg]
WithReplyOnly(messages, msg) == <<msg>>

WithReply(messages, msg) == Append(messages, msg)

\* `if not last_msg or "I don't know" in last_msg.lower():`
NeedsFallback(last_msg) == last_msg = "" \/ HasIDontKnow(LowerText(last_msg))

\* _call_agent(state): the messages it returns.
call_agent(messages, outcome, newId) ==
    WithReply(messages, Msg(newId, "ai", Strip(outcome.output)))

\* _safe_call_agent(state): the messages it returns.
safe_call_agent(messages, outcome, newId) ==
    IF outcome.exc # NoExc
    THEN WithReply(messages, Msg(newId, "ai", "Oops, something went wrong: cause text"))
    ELSE LET result == call_agent(messages, outcome, newId)
             last_msg == Strip(result[Len(result)].content)
         IN  IF NeedsFallback(last_msg)
             THEN WithReply(messages, Msg(newId, "ai", FallbackText))
             ELSE result

\* The graph of _build_graph: START -> summarize -> agent.
EdgesFromStart == {<<"START", "summarize">>, <<"START", "agent">>}

Edges == {<<"START", "summarize">>, <<"summarize", "agent">>}

Nodes == {"summarize", "agent"}

Successors(done) == {n \in Nodes : \E m \in done : <<m, n>> \in Edges}

\* The messages channel of MessagesState: an update replaces the messages
\* whose id it repeats and appends the others.
RECURSIVE Merge(_, _)
Merge(state, update) ==
    IF update = <<>> THEN state
    ELSE LET u == Head(update)
             at == {i \in 1..Len(state) : state[i].id = u.id}
         IN  Merge(IF at = {} THEN Append(state, u)
                   ELSE [i \in 1..Len(state) |-> IF i \in at THEN u ELSE state[i]],
                   Tail(update))

UserInputs == {"hi", "long question"}

\* The histories a thread's checkpoint can hold when a turn starts.
HistoryMessages == {<<"human", "hi">>, <<"human", "long question">>,
                    <<"ai", "The function app has 3 errors.">>}

Histories ==
    UNION {{[i \in 1..n |-> Msg(i, h[i][1], h[i][2])] :
                h \in {g \in [1..n -> HistoryMessages] : n > 0 => g[1][1] = "human"}} :
           n \in 0..MaxHistory}

NoRuns == [n \in Nodes |-> 0]

IdleAgent ==
    /\ history = <<>>
    /\ apc = "idle"
    /\ pending = {}
    /\ running = {}
    /\ finished = {}
    /\ started = NoRuns
    /\ completed = NoRuns
    /\ sumIn = <<>>
    /\ sumOut = <<>>
    /\ sumInvoked = 0
    /\ agIn = <<>>
    /\ agOut = <<>>
    /\ agOutcome = [output |-> "", exc |-> NoExc]
    /\ araised = NoExc
    /\ reply = "none"
    /\ turns = 0

\* chat(user_input): the input joins the checkpointed messages and the
\* graph starts from START.
Chat ==
    /\ apc \in {"idle", "done", "failed"}
    /\ turns < MaxTurns
    /\ turns' = turns + 1
    /\ \E u \in UserInputs : history' = Merge(history, <<Msg(Len(history) + 1, "human", u)>>)
    /\ apc' = "running"
    /\ pending' = Successors({"START"})
    /\ running' = {}
    /\ finished' = {}
    /\ started' = NoRuns
    /\ completed' = NoRuns
    /\ sumIn' = <<>>
    /\ sumOut' = <<>>
    /\ sumInvoked' = 0
    /\ agIn' = <<>>
    /\ agOut' = <<>>
    /\ agOutcome' = [output |-> "", exc |-> NoExc]
    /\ araised' = NoExc
    /\ reply' = "none"

\* A node scheduled in this step of the graph starts on the state.
Begin(n) ==
    /\ apc = "running"
    /\ n \in pending
    /\ pending' = pending \ {n}
    /\ running' = running \cup {n}
    /\ started' = [started EXCEPT ![n] = @ + 1]
    /\ IF n = "summarize"
       THEN sumIn' = history /\ UNCHANGED agIn
       ELSE agIn' = history /\ UNCHANGED sumIn
    /\ UNCHANGED <<history, apc, finished, completed, sumOut, sumInvoked, agOut,
                   agOutcome, araised, reply, turns>>

\* _summarize_old_messages returns (its update joins the state) or raises
\* (the turn ends with the exception).
EndSummarize ==
    /\ apc = "running"
    /\ "summarize" \in running
    /\ \E outcome \in SummarizerOutcomes :
        LET r == summarize_old_messages(sumIn, outcome, Len(history) + 1)
        IN  /\ sumInvoked' = sumInvoked + r.invoked
            /\ IF r.exc # NoExc
               THEN /\ araised' = r.exc
                    /\ apc' = "failed"
                    /\ running' = {}
                    /\ pending' = {}
                    /\ UNCHANGED <<history, finished, completed, sumOut>>
               ELSE /\ sumOut' = r.messages
                    /\ history' = Merge(history, r.messages)
                    /\ running' = running \ {"summarize"}
                    /\ finished' = finished \cup {"summarize"}
                    /\ completed' = [completed EXCEPT !["summarize"] = @ + 1]
                    /\ UNCHANGED <<apc, pending, araised>>
    /\ UNCHANGED <<started, sumIn, agIn, agOut, agOutcome, reply, turns>>

\* _safe_call_agent returns; its update joins the state.
EndAgent ==
    /\ apc = "running"
    /\ "agent" \in running
    /\ \E outcome \in AgentOutcomes :
        /\ agOutcome' = outcome
        /\ agOut' = safe_call_agent(agIn, outcome, Len(history) + 1)
        /\ history' = Merge(history, agOut')
    /\ running' = running \ {"agent"}
    /\ finished' = finished \cup {"agent"}
    /\ completed' = [completed EXCEPT !["agent"] = @ + 1]
    /\ UNCHANGED <<apc, pending, started, sumIn, sumOut, sumInvoked, agIn, araised,
                   reply, turns>>

\* The step of the graph is over: the nodes its edges lead to are
\* scheduled, or, with none left, chat returns the last message's content.
Advance ==
    /\ apc = "running"
    /\ pending = {}
    /\ running = {}
    /\ IF Successors(finished) = {}
       THEN /\ apc' = "done"
            /\ reply' = history[Len(history)].content
            /\ UNCHANGED pending
       ELSE /\ pending' = Successors(finished)
            /\ UNCHANGED <<apc, reply>>
    /\ finished' = {}
    /\ UNCHANGED <<history, running, started, completed, sumIn, sumOut, sumInvoked,
                   agIn, agOut, agOutcome, araised, turns>>

\* ---------------------------------------------------------- formatting_utils
\* A text is the sequence of its characters.
Ellipsis == <<".", ".", ".">>

\* text[:stop]: a negative stop counts from the end of the text.
SliceTo(text, stop) ==
    LET n == Len(text)
        end == IF stop < 0
               THEN (IF n + stop < 0 THEN 0 ELSE n + stop)
               ELSE (IF stop > n THEN n ELSE stop)
    IN  SubSeq(text, 1, end)

truncate_text(text, max_length) ==
    IF Len(text) <= max_length THEN text
    ELSE SliceTo(text, max_length - 3) \o Ellipsis

Letters == {"a", "b"}

Texts == UNION {[1..n -> Letters] : n \in 0..MaxTextLen}

IdleText ==
    /\ ttext = <<>>
    /\ tmax = 0
    /\ tresult = <<>>
    /\ tpc = "idle"

\* truncate_text(ttext, tmax) returns.
TruncateText ==
    /\ tpc = "call"
    /\ tresult' = truncate_text(ttext, tmax)
    /\ tpc' = "returned"
    /\ UNCHANGED <<ttext, tmax>>

\* ------------------------------------------------------------------ idle parts
IdleService ==
    /\ op = "none"
    /\ spc = "idle"
    /\ inflight = NoExc
    /\ cause = NoExc
    /\ causeAt = "none"
    /\ response = NoResponse
    /\ execCalls = 0
    /\ ret = NoRet
    /\ raised = NoExc
    /\ calls = 0
    /\ query = NoQuery

IdleParser ==
    /\ parser = "none"
    /\ rows = <<>>
    /\ parsed = FALSE
    /\ out = <<>>
    /\ diag = <<>>
    /\ summary = NoSummary
    /\ perr = NoExc

\* ------------------------------------------------ specification: the manager
Init == InitManager /\ InitThreads /\ IdleService /\ IdleParser /\ IdleBuilder /\ IdleFacade /\ IdleAgent /\ IdleText

Next ==
    \/ \E t \in Threads, h \in Handles :
        Access(t, h) /\ UNCHANGED <<serviceVars, parserVars, builderVars, facadeVars, agentVars, textVars>>
    \/ \E t \in Threads : Construct(t) /\ UNCHANGED <<serviceVars, parserVars, builderVars, facadeVars, agentVars, textVars>>
    \/ \E t \in Threads : Store(t) /\ UNCHANGED <<serviceVars, parserVars, builderVars, facadeVars, agentVars, textVars>>
    \/ \E t \in Threads : Return(t) /\ UNCHANGED <<serviceVars, parserVars, builderVars, facadeVars, agentVars, textVars>>

Spec == Init /\ [][Next]_vars

\* The manager right after __init__, with one caller.
IdleManager ==
    /\ InitManager
    /\ callers = {1}
    /\ pc = [t \in Threads |-> "idle"]
    /\ target = [t \in Threads |-> "web_client"]
    /\ fresh = [t \in Threads |-> NoObject]
    /\ got = [t \in Threads |-> Nothing]
    /\ accesses = [t \in Threads |-> 0]

\* --------------------------------------------- specification: the services
InitService == IdleManager /\ IdleService /\ IdleParser /\ IdleBuilder /\ IdleFacade /\ IdleAgent /\ IdleText

NextService ==
    \/ \E o \in Ops : Start(o) /\ UNCHANGED <<threadVars, parserVars, builderVars, facadeVars, agentVars, textVars>>
    \/ Build /\ UNCHANGED <<threadVars, parserVars, builderVars, facadeVars, agentVars, textVars>>
    \/ ClientStep /\ UNCHANGED <<threadVars, parserVars, builderVars, facadeVars, agentVars, textVars>>
    \/ Exec /\ UNCHANGED <<threadVars, parserVars, builderVars, facadeVars, agentVars, textVars>>
    \/ Interpret /\ UNCHANGED <<threadVars, parserVars, builderVars, facadeVars, agentVars, textVars>>
    \/ MgmtCall /\ UNCHANGED <<threadVars, parserVars, builderVars, facadeVars, agentVars, textVars>>
    \/ Settings /\ UNCHANGED <<threadVars, parserVars, builderVars, facadeVars, agentVars, textVars>>
    \/ Handle /\ UNCHANGED <<threadVars, parserVars, builderVars, facadeVars, agentVars, textVars>>

SpecService == InitService /\ [][NextService]_vars

\* ----------------------------------------------- specification: the parser
NextParser ==
    ParseBatch /\ UNCHANGED <<managerVars, threadVars, serviceVars, builderVars, facadeVars, agentVars, textVars>>

InitParserSpec == IdleManager /\ IdleService /\ InitParser /\ IdleBuilder /\ IdleFacade /\ IdleAgent /\ IdleText

SpecParser == InitParserSpec /\ [][NextParser]_vars

\* ---------------------------------------- specification: the query builder
InitBuilder == IdleManager /\ IdleService /\ IdleParser /\ IdleBuilder /\ IdleFacade /\ IdleAgent /\ IdleText

NextBuilder ==
    \/ BuildLogs /\ UNCHANGED <<managerVars, threadVars, serviceVars, parserVars, facadeVars, agentVars, textVars>>
    \/ BuildMetrics /\ UNCHANGED <<managerVars, threadVars, serviceVars, parserVars, facadeVars, agentVars, textVars>>
    \/ BuildErrorAnalysis /\ UNCHANGED <<managerVars, threadVars, serviceVars, parserVars, facadeVars, agentVars, textVars>>
    \/ BuildFunctionPerformance /\ UNCHANGED <<managerVars, threadVars, serviceVars, parserVars, facadeVars, agentVars, textVars>>
    \/ BuildTimeline /\ UNCHANGED <<managerVars, threadVars, serviceVars, parserVars, facadeVars, agentVars, textVars>>

SpecBuilder == InitBuilder /\ [][NextBuilder]_vars

\* ------------------------------- specification: configuration and facade
InitFacade ==
    /\ IdleManager /\ IdleService /\ IdleParser /\ IdleBuilder /\ IdleAgent /\ IdleText
    /\ environ \in Environs
    /\ farg = [kind |-> "enum", value |-> "optumqa"]
    /\ fenvironment = "none"
    /\ fpc = "idle"
    /\ fsteps = <<>>
    /\ fconfig = NoConfig
    /\ fraised = NoExc
    /\ cenv = "none"
    /\ cret = NoConfig
    /\ craised = NoExc

NextFacade ==
    \/ NewSDK /\ UNCHANGED <<managerVars, threadVars, serviceVars, parserVars, builderVars, agentVars, textVars>>
    \/ ValidateEnvironment /\ UNCHANGED <<managerVars, threadVars, serviceVars, parserVars, builderVars, agentVars, textVars>>
    \/ LoadConfiguration /\ UNCHANGED <<managerVars, threadVars, serviceVars, parserVars, builderVars, agentVars, textVars>>
    \/ InitCredential /\ UNCHANGED <<managerVars, threadVars, serviceVars, parserVars, builderVars, agentVars, textVars>>
    \/ InitServices /\ UNCHANGED <<managerVars, threadVars, serviceVars, parserVars, builderVars, agentVars, textVars>>
    \/ CallGetEnvironmentConfig /\ UNCHANGED <<managerVars, threadVars, serviceVars, parserVars, builderVars, agentVars, textVars>>

SpecFacade == InitFacade /\ [][NextFacade]_vars

\* ------------------------------------------------ specification: the agent
InitAgent ==
    /\ IdleManager /\ IdleService /\ IdleParser /\ IdleBuilder /\ IdleFacade /\ IdleText
    /\ history \in Histories
    /\ apc = "idle"
    /\ pending = {}
    /\ running = {}
    /\ finished = {}
    /\ started = NoRuns
    /\ completed = NoRuns
    /\ sumIn = <<>>
    /\ sumOut = <<>>
    /\ sumInvoked = 0
    /\ agIn = <<>>
    /\ agOut = <<>>
    /\ agOutcome = [output |-> "", exc |-> NoExc]
    /\ araised = NoExc
    /\ reply = "none"
    /\ turns = 0

NextAgent ==
    \/ Chat /\ UNCHANGED <<managerVars, threadVars, serviceVars, parserVars, builderVars, facadeVars, textVars>>
    \/ \E n \in Nodes :
        Begin(n) /\ UNCHANGED <<managerVars, threadVars, serviceVars, parserVars, builderVars, facadeVars, textVars>>
    \/ EndSummarize /\ UNCHANGED <<managerVars, threadVars, serviceVars, parserVars, builderVars, facadeVars, textVars>>
    \/ EndAgent /\ UNCHANGED <<managerVars, threadVars, serviceVars, parserVars, builderVars, facadeVars, textVars>>
    \/ Advance /\ UNCHANGED <<managerVars, threadVars, serviceVars, parserVars, builderVars, facadeVars, textVars>>

SpecAgent == InitAgent /\ [][NextAgent]_vars

\* ------------------------------------------- specification: truncate_text
InitText ==
    /\ IdleManager /\ IdleService /\ IdleParser /\ IdleBuilder /\ IdleFacade /\ IdleAgent
    /\ ttext \in Texts
    /\ tmax \in 0..MaxLength
    /\ tresult = <<>>
    /\ tpc = "call"

NextText ==
    TruncateText /\ UNCHANGED <<managerVars, threadVars, serviceVars, parserVars, builderVars, facadeVars, agentVars>>

SpecText == InitText /\ [][NextText]_vars

\* ================================================================== claims
Single == callers = {1}

\* C1: concurrent readers of one handle whose slot is empty construct at
\* most one client object for it, and every reader gets that one instance.
C1_AtMostOneClientPerSlot ==
    \A h \in Handles :
        /\ constructed[h] <= 1
        /\ \A t1, t2 \in callers :
            (/\ got[t1].kind = "value" /\ target[t1] = h
             /\ got[t2].kind = "value" /\ target[t2] = h)
            => got[t1].obj = got[t2].obj

\* C2: with a single caller, an access that finds the slot empty calls the
\* constructor; once the slot holds a client no step changes the slot or
\* calls the constructor again, and every access returns the cached client.
C2_CachedHandleNeverChanges ==
    [][Single =>
        \A h \in Handles :
            /\ (accesses'[1] > accesses[1] /\ target'[1] = h /\ slot[h] = NoObject)
               => pc'[1] = "construct"
            /\ slot[h] # NoObject
               => (slot'[h] = slot[h] /\ attempts'[h] = attempts[h])
            /\ (served'[h] > served[h])
               => (got'[1] = Value(slot'[h]) /\ slot'[h] # NoObject /\ attempts'[h] > 0)]_vars

C2_Witness ==
    /\ Single
    /\ served["logs_client"] = 2
    /\ attempts["logs_client"] = 1
    /\ got[1] = Value(slot["logs_client"])

\* C4: every failure of a client constructor, whatever it throws, leaves the
\* getter as AuthenticationError.
C4_CtorFailureIsAuthenticationError ==
    \A t \in Threads :
        got[t].kind = "raise" => got[t].exc.type = "AuthenticationError"

\* The three typed errors of src/src/models/exceptions.py.
TypedErrors == {"ConfigurationError", "AuthenticationError", "QueryError"}

\* The operation has ended and a client constructor threw during it.
CtorFailed == spc = "done" /\ causeAt = "construct"

\* C3: when construction of a client handle fails during a domain-service
\* operation, the operation's caller receives AuthenticationError.
C3_CtorFailureReachesCallerAsAuthenticationError ==
    CtorFailed => raised.type = "AuthenticationError"

\* The operation has ended after query_resource returned a non-success status.
NonSuccess == spc = "done" /\ op \in QueryOps /\ response.status \in {"PARTIAL", "FAILURE"}

\* C5 as stated: a query operation whose query_resource call returns a
\* non-success status returns an empty list and raises nothing.
C5_NonSuccessGivesEmptyList ==
    NonSuccess => (raised = NoExc /\ ret = [kind |-> "list", items |-> <<>>])

\* C5 amended: it raises nothing and returns an empty result: an empty list,
\* or for analyze_errors an ErrorAnalysis with no groups, total_errors 0 and
\* unique_error_types 0.
C5_NonSuccessGivesEmptyResult ==
    NonSuccess =>
        /\ raised = NoExc
        /\ IF Body(op) = "analyze_errors"
           THEN /\ ret.kind = "ErrorAnalysis"
                /\ ret.errors = <<>>
                /\ ret.total_errors = 0
                /\ ret.unique_error_types = 0
           ELSE ret = [kind |-> "list", items |-> <<>>]

C5_Witness ==
    /\ NonSuccess
    /\ op = "get_metrics"
    /\ response.status = "PARTIAL"
    /\ response.tables # <<>>
    /\ ret = [kind |-> "list", items |-> <<>>]

\* The operations C6 names: the query operations and the three
\* resource-metadata operations that raise.
RaisingOps == Ops \ {"validate_function_app_exists"}

CarriesCause == \A i \in 1..Len(cause.msg) : Contains(raised.msg, cause.msg[i])

\* A resource-metadata body caught ResourceNotFoundError.
NotFoundPath == causeAt = "mgmt" /\ cause.type = "ResourceNotFoundError"

\* C7 as stated: every QueryError an operation raises carries the message of
\* the underlying cause, the not-found paths included.
C7_QueryErrorAlwaysCarriesCause ==
    (spc = "done" /\ raised.type = "QueryError") => (cause # NoExc /\ CarriesCause)

\* C7 amended: it carries the cause's message except on the not-found paths
\* of list_function_apps, list_functions and get_function_app_info, where the
\* message names the resource group or the Function App instead.
C7_QueryErrorCarriesCauseOrResource ==
    (spc = "done" /\ raised.type = "QueryError") =>
        /\ cause # NoExc
        /\ IF NotFoundPath
           THEN /\ ~CarriesCause
                /\ raised.msg = IF Body(op) = "list_function_apps"
                                THEN <<"Resource group not found: ", ResourceGroup>>
                                ELSE <<"Function App not found: ", FunctionAppName>>
           ELSE CarriesCause

C7_Witness ==
    /\ spc = "done"
    /\ op = "get_logs"
    /\ causeAt = "construct"
    /\ raised.type = "QueryError"
    /\ Contains(raised.msg, "cause text")

\* An external client's constructor or method threw during the operation.
ExternalThrew ==
    spc = "done" /\ cause # NoExc /\ causeAt \in {"construct", "exec", "mgmt", "settings"}

MalformedAsClaimed(p, row) ==
    \/ Len(row) < Required(p)
    \/ \E i \in NumericCols(p) : i < Len(row) /\ Col(row, i) \in {"", "abc"}

\* The row is malformed for the method: too few columns, or a numeric column
\* holding a non-empty string that spells no number, or (the log method's
\* severity only) the empty string.
Malformed(p, row) ==
    \/ Len(row) < Required(p)
    \/ \E i \in NumericCols(p) :
        /\ i < Len(row)
        /\ \/ Col(row, i) = "abc"
           \/ p = "logs" /\ Col(row, i) = ""

\* No numeric column of the batch holds the float infinity.
Finite(p, batch) ==
    \A j \in 1..Len(batch) : \A i \in NumericCols(p) :
        i < Len(batch[j]) => Col(batch[j], i) # "inf"

\* The records of every row of the batch but row k, in order.
AllBut(p, batch, k) ==
    [j \in 1..(Len(batch) - 1) |-> Record(p, batch[IF j < k THEN j ELSE j + 1])]

LabelAsSpecified(c) ==
    CASE c = "0" -> "Verbose" [] c = "1" -> "Information" [] c = "2" -> "Warning"
      [] c = "3" -> "Error" [] OTHER -> "Unknown"

\* The log rows with the five columns read and an integer or null severity.
IntegerSeverityRows ==
    SelectSeq(rows, LAMBDA r : Len(r) >= 5 /\ Col(r, 1) \in Digits \cup {"null"})

\* A log row carries the float infinity as its severity.
InfiniteSeverity == \E j \in 1..Len(rows) : Len(rows[j]) >= 2 /\ Col(rows[j], 1) = "inf"

\* The records returned are those of the integer-or-null severity rows, in
\* order, each with the label of the table.
LevelsAsSpecified ==
    /\ Len(out) = Len(IntegerSeverityRows)
    /\ \A j \in 1..Len(out) : out[j].level = LabelAsSpecified(Col(IntegerSeverityRows[j], 1))

RECURSIVE SumCounts(_)
SumCounts(groups) ==
    IF groups = <<>> THEN 0 ELSE Head(groups).count + SumCounts(Tail(groups))

\* C12: for every batch given to parse_error_analysis_response, malformed
\* rows included, the ErrorAnalysis returned has total_errors equal to the
\* sum of the counts of its groups and unique_error_types equal to the
\* number of its groups; the rows that failed to parse are in neither.
C12_TotalsMatchGroups ==
    (parsed /\ parser = "error_analysis" /\ perr = NoExc) =>
        /\ summary.total_errors = SumCounts(out)
        /\ summary.unique_error_types = Len(out)
        /\ Len(out) = Len(rows) - Len(diag)
        /\ Len(out) = Len(SelectSeq(rows, LAMBDA r : RowError("error_analysis", r) = "ok"))

C12_Witness ==
    /\ parsed
    /\ parser = "error_analysis"
    /\ perr = NoExc
    /\ Len(rows) = 3
    /\ Len(diag) = 1
    /\ Len(out) = 2
    /\ summary.total_errors = 4
    /\ summary.unique_error_types = 2

\* ----------------------------------------------------------------- metrics
\* The numeric field of a FunctionAppMetrics record read from column i.
MetricField(rec, i) ==
    CASE i = 1 -> rec.total_invocations [] i = 2 -> rec.successful_invocations
      [] i = 3 -> rec.failed_invocations [] i = 4 -> rec.avg_duration_ms
      [] OTHER -> rec.unique_functions

\* The metrics rows with all six columns whose numeric cells are drawn
\* from `cells`.
MetricsRowsOver(cells) ==
    SelectSeq(rows, LAMBDA r : Len(r) >= 6 /\ \A i \in NumericCols("metrics") : Col(r, i) \in cells)

\* The records returned are those of the rows `kept`, in order, and every
\* field whose cell is in `zeroed` is 0.
KeptWithZero(kept, zeroed) ==
    /\ Len(out) = Len(kept)
    /\ \A j \in 1..Len(out) : \A i \in NumericCols("metrics") :
        /\ Col(kept[j], i) \in zeroed => MetricField(out[j], i) = 0
        /\ Col(kept[j], i) \in Digits => MetricField(out[j], i) = NumOf(Col(kept[j], i))

\* C13 as stated: parse_metrics_response keeps a row whose numeric column
\* is missing or non-numeric, and the field is 0 in the record.
C13_MissingOrNonNumericIsZero ==
    (parsed /\ parser = "metrics" /\ perr = NoExc) =>
        KeptWithZero(MetricsRowsOver(Digits \cup {"null", "", "abc"}), {"null", "", "abc"})

\* C13 amended: parse_metrics_response keeps a row whose numeric column is
\* null or the empty string, and the field is 0 in the record; a row with
\* a non-empty non-numeric string in a numeric column, or without the
\* column, is left out and one diagnostic is logged for it.
C13_NullOrEmptyIsZero ==
    (parsed /\ parser = "metrics" /\ perr = NoExc) =>
        /\ KeptWithZero(MetricsRowsOver(Digits \cup {"null", ""}), {"null", ""})
        /\ Len(diag) = Len(rows) - Len(out)

C13_Witness ==
    /\ parsed
    /\ parser = "metrics"
    /\ perr = NoExc
    /\ rows = << Put(BaseRow("metrics"), 4, "null"), Put(BaseRow("metrics"), 5, ""),
                 Put(BaseRow("metrics"), 1, "abc") >>
    /\ Len(out) = 2
    /\ out[1].avg_duration_ms = 0
    /\ out[2].unique_functions = 0
    /\ Len(diag) = 1
    /\ diag[1].row = 3

\* ------------------------------------------------------------ query texts
\* The lines of a text without their indentation, and its clauses: the
\* lines that are not blank.
Pieces(text) == [i \in 1..Len(text) |-> text[i].pieces]

Clauses(text) == SelectSeq(Pieces(text), LAMBDA l : l # <<>>)

Starts(l, s) == l # <<>> /\ l[1] = s

\* The lines of a text that start with s.
LinesStarting(text, s) == {i \in 1..Len(text) : Starts(text[i].pieces, s)}

HasLine(text, l) == \E i \in 1..Len(text) : text[i].pieces = l

\* The queries get_logs can issue, over every choice of its parameters.
GetLogsQueries ==
    {GetLogsQuery(a, h, l, f, n) :
        a \in {FunctionAppName}, h \in HoursChoices, l \in LevelChoices,
        f \in {"null", FunctionName, SearchTerm}, n \in {50, 100}}

\* C14: get_error_logs, search_logs and get_function_logs are parameter
\* presets of get_logs: the query each issues is a query get_logs issues
\* for some choice of its parameters (compared clause by clause, blank
\* lines and indentation aside).
C14_ConvenienceOpsArePresets ==
    (op \in {"get_error_logs", "search_logs", "get_function_logs"} /\ query # NoQuery)
        => \E q \in GetLogsQueries : Clauses(query) = Clauses(q)

\* The latest call is a build_logs_query call.
LogsCall == call.fn = "build_logs_query"

\* C15: for every combination of the optional filters, the text of
\* build_logs_query ends with the row limit, the six-column projection and
\* the descending-timestamp sort, in this order, and none of the three
\* appears before; the sort is the last clause.
C15_EndsWithLimitProjectionSort ==
    LogsCall =>
        LET c == Pieces(call.text)
            n == Len(c)
        IN  /\ n >= 6
            /\ Starts(c[n - 2], "| limit ")
            /\ c[n - 1] = <<"| project timestamp, severityLevel, message, operation_Name, operation_Id, customDimensions">>
            /\ c[n] = <<"| order by timestamp desc">>
            /\ \A i \in 1..(n - 3) :
                /\ ~Starts(c[i], "| limit ")
                /\ ~Starts(c[i], "| project timestamp, severityLevel, message, operation_Name, operation_Id, customDimensions")
                /\ ~Starts(c[i], "| order by timestamp desc")

C15_Witness ==
    /\ LogsCall
    /\ call.args.log_level = "Warning"
    /\ call.args.function_name = "fn-name"
    /\ call.args.exclude_noise
    /\ Len(call.text) = 11
    /\ call.text[11].pieces = <<"| order by timestamp desc">>

\* C16: for every N and every combination of the other arguments, the
\* text of build_logs_query(..., limit=N) has exactly one row-limit clause
\* and it caps the rows to N.
C16_ExactlyOneLimitOfN ==
    LogsCall =>
        /\ Cardinality(LinesStarting(call.text, "| limit ")) = 1
        /\ HasLine(call.text, <<"| limit ">> \o Decimal(call.args.limit))

C16_Witness ==
    /\ LogsCall
    /\ call.args.limit = 1
    /\ ~call.args.exclude_noise
    /\ HasLine(call.text, <<"| limit ", "1">>)
    /\ ~HasLine(call.text, <<"| limit ", "1", "0", "0">>)

\* The three fixed suppression clauses.
Suppression ==
    { <<"| where message != \"WorkerStatusRequest completed\"">>,
      <<"| where message !contains \"Host lock lease acquired\"">>,
      <<"| where message !contains \"Host lock lease renewed\"">> }

\* C17: with exclude_noise false the text of build_logs_query has none of
\* the three suppression clauses, with exclude_noise true it has all three
\* verbatim, whatever the other arguments are.
C17_NoiseToggle ==
    LogsCall =>
        IF call.args.exclude_noise
        THEN \A l \in Suppression : HasLine(call.text, l)
        ELSE \A l \in Suppression : ~HasLine(call.text, l)

C17_Witness ==
    /\ LogsCall
    /\ ~call.args.exclude_noise
    /\ call.args.log_level = "Error"
    /\ Len(call.text) = 7
    /\ seen.fn = "build_logs_query"
    /\ seen.args = [call.args EXCEPT !.exclude_noise = TRUE]
    /\ Len(seen.text) = 10

\* The literal the specification gives a level.
LiteralAsSpecified(level) ==
    CASE level = "Error" -> "3" [] level = "Warning" -> "2"
      [] level = "Information" -> "1" [] level = "Verbose" -> "0"
      [] OTHER -> level

\* C18: build_logs_query renders a severity clause iff a level is given:
\* Error is compared with 3, Warning with 2, Information with 1, Verbose
\* with 0, any other non-empty level with the level string itself; with a
\* null or empty level there is no severity clause.
C18_SeverityClauseIffLevel ==
    LogsCall =>
        LET sev == LinesStarting(call.text, "| where severityLevel == ")
        IN  IF call.args.log_level \in {"null", ""}
            THEN sev = {}
            ELSE /\ Cardinality(sev) = 1
                 /\ \A i \in sev :
                        call.text[i].pieces =
                            <<"| where severityLevel == ", LiteralAsSpecified(call.args.log_level)>>

C18_Witness ==
    /\ LogsCall
    /\ call.args.log_level = "Critical"
    /\ HasLine(call.text, <<"| where severityLevel == ", "Critical">>)
    /\ seen.fn = "build_logs_query"
    /\ seen.args.log_level = ""
    /\ LinesStarting(seen.text, "| where severityLevel == ") = {}

\* C19: for every subject s and hours_back h the text of build_logs_query
\* starts from the traces table and has the clauses
\* `timestamp > ago(<h>h)` and `cloud_RoleName contains '<s>'`; subject
\* foo, 3 hours and level Error give `severityLevel == 3`,
\* `cloud_RoleName contains 'foo'` and `ago(3h)`.
C19_TracesWindowAndSubject ==
    LogsCall =>
        /\ call.text[1].pieces = <<"traces">>
        /\ HasLine(call.text,
                   <<"| where timestamp > ago(">> \o Decimal(call.args.hours_back) \o <<"h)">>)
        /\ HasLine(call.text,
                   <<"| where cloud_RoleName contains '", call.args.application_name, "'">>)
        /\ (/\ call.args.application_name = "foo"
            /\ call.args.hours_back = 3
            /\ call.args.log_level = "Error")
            => /\ HasLine(call.text, <<"| where severityLevel == ", "3">>)
               /\ HasLine(call.text, <<"| where cloud_RoleName contains '", "foo", "'">>)
               /\ HasLine(call.text, <<"| where timestamp > ago(", "3", "h)">>)

C19_Witness ==
    /\ LogsCall
    /\ call.args.application_name = "foo"
    /\ call.args.hours_back = 3
    /\ call.args.log_level = "Error"
    /\ call.text[2].pieces = <<"| where timestamp > ago(", "3", "h)">>
    /\ seen.fn = "build_logs_query"
    /\ seen.args.application_name = "app-name"
    /\ seen.text[2].pieces = <<"| where timestamp > ago(", "2", "4", "h)">>

C24_FailureIsNotCached ==
    [][/\ \A t \in Threads :
            (pc[t] = "construct" /\ pc'[t] = "done") => slot' = slot
       /\ (/\ Single
           /\ pc[1] = "done"
           /\ got[1].kind = "raise"
           /\ pc'[1] # "done"
           /\ target'[1] = target[1])
           => pc'[1] = "construct"]_vars

C24_Witness ==
    /\ Single
    /\ accesses[1] = 2
    /\ target[1] = "logs_client"
    /\ attempts["logs_client"] = 2
    /\ constructed["logs_client"] = 1
    /\ got[1].kind = "value"
    /\ slot["logs_client"] = got[1].obj
    /\ slot["web_client"] = NoObject

\* ------------------------------------------------------------ row order
\* The rows of the batch the method builds a record from, in batch order.
ParsableRows == SelectSeq(rows, LAMBDA r : RowError(parser, r) = "ok")

\* C25: for every parser and batch the records returned are the records
\* of a subsequence of the rows, one per row, in the rows' order: never
\* more than the rows, never reordered, never repeated.
C25_OutputIsOrderedSubsequence ==
    (parsed /\ perr = NoExc) =>
        /\ Len(out) <= Len(rows)
        /\ Len(out) = Len(ParsableRows)
        /\ \A j \in 1..Len(out) : out[j] = Record(parser, ParsableRows[j])

C25_Witness ==
    /\ parsed
    /\ perr = NoExc
    /\ parser = "timeline"
    /\ rows = << Put(BaseRow("timeline"), 1, "null"), Put(BaseRow("timeline"), 3, "abc"),
                 BaseRow("timeline") >>
    /\ Len(out) = 2
    /\ out[1].requests = 0
    /\ out[2].requests = 3

\* ----------------------------------------------------- get_function_logs
\* C26: the query get_function_logs issues has the function-name clause
\* and no severityLevel clause.
C26_FunctionLogsOfEveryLevel ==
    (op = "get_function_logs" /\ query # NoQuery) =>
        /\ HasLine(query, <<"| where operation_Name contains '", FunctionName,
                            "' or message contains '", FunctionName, "'">>)
        /\ LinesStarting(query, "| where severityLevel == ") = {}

\* ------------------------------------------------------- configuration
\* The fields whose variable, for the prefix of the name called with, is
\* unset or empty, in the order of the configuration's fields.
MissingFor(name) == SelectSeq(ConfigFields, LAMBDA k : ~IsSet(Getenv(Upper(name), k)))

\* The message names exactly these fields.
NamesExactly(msg, fields) ==
    \A i \in 1..3 :
        Contains(msg, ConfigFields[i]) <=> (\E j \in 1..Len(fields) : fields[j] = ConfigFields[i])

\* C21: with the three variables of the environment all set,
\* get_environment_config returns the triple unchanged; with any of them
\* missing it raises ConfigurationError, whose message names exactly the
\* missing fields.
C21_MissingFieldsAreConfigurationError ==
    cenv # "none" =>
        IF MissingFor(cenv) = <<>>
        THEN /\ craised = NoExc
             /\ \A i \in 1..3 : cret[ConfigFields[i]] = environ.vals[ConfigFields[i]]
        ELSE /\ craised # NoExc
             /\ craised.type = "ConfigurationError"
             /\ NamesExactly(craised.msg, MissingFor(cenv))

\* ---------------------------------------------------------------- facade
\* The constructor running was given a string that names no supported
\* environment, and has gone past its check.
InvalidNameChecked ==
    /\ farg.kind = "str"
    /\ Lower(farg.value) \notin {"optumdev", "optumqa"}
    /\ fpc \notin {"idle", "validate"}

\* C22: AzureObservabilitySDK(name) with a name that is no supported
\* literal fails with ConfigurationError, and the constructor has then
\* done nothing but set up logging and check the name: no configuration
\* loaded, no credential created, no service constructed.
C22_InvalidNameFailsFirst ==
    InvalidNameChecked =>
        /\ fpc = "failed"
        /\ fraised # NoExc
        /\ fraised.type = "ConfigurationError"
        /\ Contains(fraised.msg, farg.value)
        /\ fsteps = <<"logging", "validate">>
        /\ fconfig = NoConfig
        /\ fenvironment = "none"

C22_Witness ==
    /\ InvalidNameChecked
    /\ farg.value = "qa"
    /\ environ.prefix = "QA"
    /\ \A i \in 1..3 : IsSet(environ.vals[ConfigFields[i]])
    /\ fpc = "failed"
    /\ fraised.type = "ConfigurationError"

C27_SafeCallAppendsOneAIMessage ==
    completed["agent"] >= 1 =>
        /\ Len(agOut) = Len(agIn) + 1
        /\ SubSeq(agOut, 1, Len(agIn)) = agIn
        /\ agOut[Len(agOut)].type = "ai"
        /\ araised = NoExc

C27_Witness ==
    /\ completed["agent"] = 1
    /\ agOutcome.exc # NoExc
    /\ Len(agIn) >= 3
    /\ agOut[Len(agOut)].content = "Oops, something went wrong: cause text"

\* C28: when the agent's output is empty or contains "I don't know" in any
\* letter case, the returned list ends with the fallback message.
HasIDontKnowAnyCase(s) == LowerText(s) = "i don't know"

C28_EmptyOrUnknownGetsFallback ==
    (/\ completed["agent"] >= 1
     /\ agOutcome.exc = NoExc
     /\ (Strip(agOutcome.output) = "" \/ HasIDontKnowAnyCase(agOutcome.output))) =>
        agOut[Len(agOut)].content = FallbackText

\* C29: a returned _summarize_old_messages gave back its input untouched,
\* without invoking the summarizer, when the input's tokens were below
\* max_tokens; otherwise it gave back the last min(5, n) input messages in
\* order followed by one summary message (at most 6 in all) after exactly
\* one summarizer invocation.
C29_SummarizeKeepsLastFive ==
    /\ completed["summarize"] >= 1 =>
        IF TotalTokens(sumIn) < max_tokens
        THEN sumOut = sumIn /\ sumInvoked = 0
        ELSE LET n == Len(sumIn)
                 k == IF n < 5 THEN n ELSE 5
             IN  /\ Len(sumOut) = k + 1
                 /\ Len(sumOut) <= 6
                 /\ \A i \in 1..k : sumOut[i] = sumIn[n - k + i]
                 /\ sumOut[k + 1].type = "ai"
                 /\ sumOut[k + 1].content = "summary of the conversation"
                 /\ sumInvoked = 1
    /\ apc = "failed" => TotalTokens(sumIn) >= max_tokens /\ sumInvoked = 1

C29_Witness ==
    /\ completed["summarize"] = 1
    /\ Len(sumIn) > 5
    /\ TotalTokens(sumIn) >= max_tokens
    /\ Len(sumOut) = 6

\* C30: for max_length >= 0 the text truncate_text returned is at most
\* max_length long; it is the text itself when the text fits and otherwise
\* a prefix of the text followed by "...".
C30_TruncatedFitsMaxLength ==
    (tpc = "returned" /\ tmax >= 0) =>
        /\ Len(tresult) <= tmax
        /\ Len(ttext) <= tmax => tresult = ttext
        /\ Len(ttext) > tmax =>
            \E k \in 0..Len(ttext) : tresult = SubSeq(ttext, 1, k) \o Ellipsis

====
